---- MODULE Spec2Model ----
(***************************************************************************)
(* Model of pymatgen.phonon.gruneisen.                                     *)
(*                                                                         *)
(* GruneisenParameter: the instance fields set by __init__, the module     *)
(* level phonopy import, and one action per public operation.  Each        *)
(* operation is a function of the instance (Python `self`) that yields an  *)
(* outcome: the value returned or the exception raised, together with the  *)
(* number of TotalDos objects built on the way.                            *)
(*                                                                         *)
(* Arrays are 1-based here: frequencies[m][q] is Python's                  *)
(* frequencies[m-1, q-1], the shape being (num_modes, num_qpoints) as the  *)
(* constructor's docstring states.                                         *)
(*                                                                         *)
(* Numbers.  Temperatures and frequencies are integers in units in which   *)
(* const.tera / k_B[Hz/K] = 1, so that wdkt = w / t.  A float result is an *)
(* exact, normalised fraction; the heat capacity is a fixed-point number   *)
(* with CvScale steps per unit of k_B[eV/K].                               *)
(***************************************************************************)
EXTENDS Integers, Sequences, FiniteSets, TLC

VARIABLES
    qpoints,         \* self.qpoints
    gruneisen,       \* self.gruneisen
    frequencies,     \* self.frequencies
    multiplicities,  \* self.multiplicities (optional)
    lattice,         \* self.lattice (optional)
    structure,       \* self.structure (optional)
    phonopy,         \* the module's phonopy / TotalDos import (optional)
    pc,              \* "idle", or "returned" once an operation has ended
    op,              \* the operation that ended last
    args,            \* its arguments
    result,          \* what it returned or raised
    dos_runs,        \* TotalDos objects it built
    avg_runs,        \* evaluations of average_gruneisen it made
    bs,              \* a GruneisenPhononBandStructure(SymmLine) x
    dct,             \* x.as_dict(), once taken
    restored         \* type(x).from_dict(dct), once built

vars == <<qpoints, gruneisen, frequencies, multiplicities, lattice, structure,
          phonopy, pc, op, args, result, dos_runs, avg_runs, bs, dct, restored>>

fields == <<qpoints, gruneisen, frequencies, multiplicities, lattice, structure>>

call == <<pc, op, args, result, dos_runs, avg_runs>>

band == <<bs, dct, restored>>

-----------------------------------------------------------------------------
(* Bounds of the model. *)

MaxModes == 4

MaxQpoints == 4

CvScale == 1000

-----------------------------------------------------------------------------
(* Python values. *)

None == [none |-> TRUE]

Some(v) == [none |-> FALSE, val |-> v]

IsNone(x) == x.none

Raise(type, msg, value) ==
    [kind |-> "error", type |-> type, msg |-> msg, value |-> value]

IsError(r) == r.kind = "error"

NaN == [kind |-> "nan"]

RECURSIVE GCD(_, _)
GCD(a, b) == IF b = 0 THEN a ELSE GCD(b, a % b)

Abs(n) == IF n < 0 THEN -n ELSE n

\* The float num / den, den > 0, as a normalised fraction.
Float(num, den) ==
    LET g == GCD(Abs(num), den)
    IN  [kind |-> "float", root |-> FALSE, num |-> num \div g, den |-> den \div g]

RECURSIVE ISqrtIn(_, _, _)
ISqrtIn(n, lo, hi) ==
    IF lo >= hi THEN lo
    ELSE LET mid == (lo + hi + 1) \div 2
         IN  IF mid * mid <= n THEN ISqrtIn(n, mid, hi) ELSE ISqrtIn(n, lo, mid - 1)

ISqrt(n) == ISqrtIn(n, 0, IF n > 46340 THEN 46340 ELSE n)

IsSquare(n) == n >= 0 /\ ISqrt(n) * ISqrt(n) = n

\* np.sqrt of a float: exact when both terms are squares, else kept as a root.
Sqrt(g) ==
    IF g.kind # "float" THEN g
    ELSE IF g.num < 0 THEN NaN
    ELSE IF IsSquare(g.num) /\ IsSquare(g.den)
         THEN [g EXCEPT !.num = ISqrt(g.num), !.den = ISqrt(g.den)]
    ELSE [g EXCEPT !.root = TRUE]

-----------------------------------------------------------------------------
(* The phonopy collaborator and the properties built on it. *)

Transpose(a) ==
    [q \in 1..Len(a[1]) |-> [m \in 1..Len(a) |-> a[m][q]]]

\* len(self.structure) ** (1 / 3), exact on the atom counts of the model.
CubeRoot(n) == CHOOSE r \in 1..n : r * r * r = n

StructureError == Raise("ValueError", "Structure is not defined.", "")

\* The property tdos: requires(phonopy, ...) raises when the import failed;
\* otherwise one TotalDos is built on the transposed frequencies and the
\* multiplicities and run.  Whether phonopy runs without weights is phonopy's
\* matter: the import says so (needs_weights).
tdos(self) ==
    IF IsNone(phonopy)
    THEN [res |-> Raise("RuntimeError", "This method requires phonopy to be installed", ""),
          dos |-> 0]
    ELSE LET tmp_mesh == [frequencies |-> Transpose(self.frequencies),
                          weights |-> self.multiplicities]
         IN  IF IsNone(tmp_mesh.weights) /\ phonopy.val.needs_weights
             THEN [res |-> Raise("TypeError", "TotalDos", ""), dos |-> 1]
             ELSE [res |-> [kind |-> "TotalDos", mesh |-> tmp_mesh], dos |-> 1]

\* The property phdos: PhononDos(self.tdos.frequency_points, self.tdos.dos).
phdos(self) ==
    LET a == tdos(self)
        b == tdos(self)
    IN  IF IsError(a.res) THEN a
        ELSE IF IsError(b.res) THEN [res |-> b.res, dos |-> a.dos + b.dos]
        ELSE [res |-> [kind |-> "PhononDos", frequency_points |-> a.res, dos |-> b.res],
              dos |-> a.dos + b.dos]

\* debye_temp_limit on one TotalDos kept for both of its reads.
DebyeTempLimitMemoized(self) ==
    LET a == tdos(self)
    IN  IF IsError(a.res) THEN a
        ELSE [res |-> Float(phonopy.val.theta, 1), dos |-> a.dos]

\* The property debye_temp_limit: two accesses of tdos, then the spectral
\* estimate sqrt(5/3 * i_a / i_b) / k_B, which is phonopy.val.theta for the
\* DOS of this instance.
debye_temp_limit(self) ==
    LET a == tdos(self)
        b == tdos(self)
    IN  IF IsError(a.res) THEN a
        ELSE IF IsError(b.res) THEN [res |-> b.res, dos |-> a.dos + b.dos]
        ELSE [res |-> Float(phonopy.val.theta, 1), dos |-> a.dos + b.dos]

\* acoustic_debye_temp without the division by the cube root of the atom count.
AcousticNotScaled(self) ==
    IF IsNone(self.structure)
    THEN [res |-> StructureError, dos |-> 0]
    ELSE debye_temp_limit(self)

\* The property acoustic_debye_temp.
acoustic_debye_temp(self) ==
    IF IsNone(self.structure)
    THEN [res |-> StructureError, dos |-> 0]
    ELSE LET lim == debye_temp_limit(self)
         IN  IF IsError(lim.res) THEN lim
             ELSE [res |-> Float(lim.res.num,
                                 lim.res.den * CubeRoot(Len(self.structure.val.sites))),
                   dos |-> lim.dos]

\* debye_temp_phonopy with the structure looked at only when it is used.
DebyeTempPhonopyLate(self, freq_max_fit) ==
    LET t == tdos(self)
    IN  IF IsError(t.res) THEN t
        ELSE IF IsNone(self.structure) THEN [res |-> StructureError, dos |-> t.dos]
        ELSE [res |-> [kind |-> "debye_phonopy", dos |-> t.res,
                       num_atoms |-> Len(self.structure.val.sites),
                       freq_max_fit |-> freq_max_fit],
              dos |-> t.dos]

\* debye_temp_phonopy(freq_max_fit): the Debye frequency phonopy fits, as a
\* temperature.
debye_temp_phonopy(self, freq_max_fit) ==
    IF IsNone(self.structure)
    THEN [res |-> StructureError, dos |-> 0]
    ELSE LET t == tdos(self)
         IN  IF IsError(t.res) THEN t
             ELSE [res |-> [kind |-> "debye_phonopy", dos |-> t.res,
                            num_atoms |-> Len(self.structure.val.sites),
                            freq_max_fit |-> freq_max_fit],
                   dos |-> t.dos]

-----------------------------------------------------------------------------
(* average_gruneisen. *)

RECURSIVE ExpSum(_, _, _, _)
\* The series of exp(n / d) from the k-th term on, in steps of 1 / CvScale.
ExpSum(term, k, n, d) ==
    IF term = 0 THEN 0 ELSE term + ExpSum((term * n) \div (d * k), k + 1, n, d)

\* Cv without the np.choose on w > 0: the formula wherever it is defined.
CvUnchosen(w, t) ==
    IF w # 0
    THEN LET n == w * t.den
             d == t.num
             exp_wdkt == ExpSum(CvScale, 1, n, d)
             em1 == exp_wdkt - CvScale
         IN  ((((n * n * exp_wdkt * CvScale) \div em1) * CvScale) \div em1) \div (d * d)
    ELSE 0

\* cv of one entry: np.choose(w > 0, (0, k_B * wdkt**2 * exp_wdkt / (exp_wdkt - 1)**2)),
\* with wdkt = w / t and t the fraction t.num / t.den.
Cv(w, t) ==
    IF w > 0
    THEN LET n == w * t.den
             d == t.num
             exp_wdkt == ExpSum(CvScale, 1, n, d)
             em1 == exp_wdkt - CvScale
         IN  ((((n * n * exp_wdkt * CvScale) \div em1) * CvScale) \div em1) \div (d * d)
    ELSE 0

\* gamma = self.gruneisen, squared element-wise when asked.
Gamma(g, squared) == IF squared THEN g * g ELSE g

\* The cells of an array of the given shape, in np.where's (row-major) order.
Cells(nm, nq) ==
    [i \in 1..(nm * nq) |-> <<((i - 1) \div nq) + 1, ((i - 1) % nq) + 1>>]

\* The cells of the array w.
CellsOf(w) == Cells(Len(w), Len(w[1]))

AcousticWidth == 3

\* ind for limit_frequencies="debye": 0 <= w <= acoustic_debye_freq.
IndDebye(w, freq) ==
    LET Test(c) == w[c[1]][c[2]] >= 0 /\ w[c[1]][c[2]] * freq.den <= freq.num
    IN  SelectSeq(CellsOf(w), Test)

\* ind for limit_frequencies="acoustic": np.where(w[:, :3] >= 0).
IndAcoustic(w) ==
    LET Test(c) == c[2] <= AcousticWidth /\ w[c[1]][c[2]] >= 0
    IN  SelectSeq(CellsOf(w), Test)

\* ind for limit_frequencies=None: np.where(w >= 0).
IndAll(w) ==
    LET Test(c) == w[c[1]][c[2]] >= 0
    IN  SelectSeq(CellsOf(w), Test)

RECURSIVE Dot(_, _)
Dot(a, b) == IF a = <<>> THEN 0 ELSE Head(a) * Head(b) + Dot(Tail(a), Tail(b))

\* weights[ind[0]]: the multiplicities at the first index of every cell of ind.
WeightsAt(weights, ind) == [i \in 1..Len(ind) |-> weights[ind[i][1]]]

\* np.dot(weights[ind[0]], (cv * gamma)[ind]).sum() / np.dot(weights[ind[0]], cv[ind]).sum()
WeightedAverage(self, weights, t, squared, ind) ==
    LET w == self.frequencies
        cvg == [i \in 1..Len(ind) |->
                   Cv(w[ind[i][1]][ind[i][2]], t)
                   * Gamma(self.gruneisen[ind[i][1]][ind[i][2]], squared)]
        cv == [i \in 1..Len(ind) |-> Cv(w[ind[i][1]][ind[i][2]], t)]
    IN  IF \E i \in 1..Len(ind) : ind[i][1] > Len(weights)
        THEN Raise("IndexError", "index is out of bounds for axis 0", "")
        ELSE LET num == Dot(WeightsAt(weights, ind), cvg)
                 den == Dot(WeightsAt(weights, ind), cv)
             IN  IF den = 0 THEN NaN
                 ELSE IF den < 0 THEN Float(-num, -den)
                 ELSE Float(num, den)

\* The final root forgotten.
RootForgotten(g, squared) == g

\* if squared: g = np.sqrt(g)
Root(g, squared) == IF squared /\ ~IsError(g) THEN Sqrt(g) ELSE g

LimitError(value) ==
    Raise("ValueError", "is not an accepted value for limit_frequencies.", value)

MultiplicitiesError == Raise("ValueError", "Multiplicities are not defined.", "")

\* Unset multiplicities taken as a weight of 1 for every q-point.
MultiplicitiesDefaulted(self) ==
    IF IsNone(self.multiplicities)
    THEN [kind |-> "array", val |-> [q \in 1..Len(self.frequencies[1]) |-> 1]]
    ELSE [kind |-> "array", val |-> self.multiplicities.val]

\* weights = self.multiplicities; if weights is None: raise ValueError(...)
Multiplicities(self) ==
    IF IsNone(self.multiplicities)
    THEN MultiplicitiesError
    ELSE [kind |-> "array", val |-> self.multiplicities.val]

AcceptedLimits == {None, Some("debye"), Some("acoustic")}

\* The cutoff taken from the temperature of the average.
DebyeFreqOfT(self, t) == [res |-> t, dos |-> 0]

\* acoustic_debye_freq = self.acoustic_debye_temp * k_B[Hz/K] / tera: the
\* property of the instance is read once more, whatever t is.  Temperatures
\* are counted in units of tera / k_B[Hz/K] kelvin, the unit in which
\* wdkt = w / t.
acoustic_debye_freq(self, t) == acoustic_debye_temp(self)

\* average_gruneisen with the multiplicities checked before limit_frequencies.
AverageAtWeightsFirst(self, t, squared, limit_frequencies) ==
    LET w == self.frequencies
        weights == Multiplicities(self)
        adt == IF limit_frequencies = Some("debye")
               THEN acoustic_debye_freq(self, t)
               ELSE [res |-> None, dos |-> 0]
    IN  IF IsError(weights) THEN [res |-> weights, dos |-> 0]
        ELSE IF limit_frequencies = Some("debye") /\ IsError(adt.res) THEN adt
        ELSE IF limit_frequencies \notin AcceptedLimits
             THEN [res |-> LimitError(limit_frequencies.val), dos |-> 0]
        ELSE LET ind == IF limit_frequencies = Some("debye") THEN IndDebye(w, adt.res)
                        ELSE IF limit_frequencies = Some("acoustic") THEN IndAcoustic(w)
                        ELSE IndAll(w)
             IN  [res |-> Root(WeightedAverage(self, weights.val, t, squared, ind), squared),
                  dos |-> adt.dos]

\* The body of average_gruneisen once t is a number: the selection, the
\* multiplicities check, the average and the root.
AverageAt(self, t, squared, limit_frequencies) ==
    LET w == self.frequencies
        adt == IF limit_frequencies = Some("debye")
               THEN acoustic_debye_freq(self, t)
               ELSE [res |-> None, dos |-> 0]
        weights == Multiplicities(self)
    IN  IF limit_frequencies = Some("debye") /\ IsError(adt.res) THEN adt
        ELSE IF limit_frequencies \notin AcceptedLimits
             THEN [res |-> LimitError(limit_frequencies.val), dos |-> 0]
        ELSE IF IsError(weights)
             THEN [res |-> weights, dos |-> adt.dos]
        ELSE LET ind == IF limit_frequencies = Some("debye") THEN IndDebye(w, adt.res)
                        ELSE IF limit_frequencies = Some("acoustic") THEN IndAcoustic(w)
                        ELSE IndAll(w)
             IN  [res |-> Root(WeightedAverage(self, weights.val, t, squared, ind), squared),
                  dos |-> adt.dos]

\* average_gruneisen with limit_frequencies validated before t is resolved.
AverageLimitFirst(self, t, squared, limit_frequencies) ==
    IF limit_frequencies \notin AcceptedLimits
    THEN [res |-> LimitError(limit_frequencies.val), dos |-> 0]
    ELSE IF IsNone(t)
    THEN LET adt == acoustic_debye_temp(self)
         IN  IF IsError(adt.res) THEN adt
             ELSE LET r == AverageAt(self, adt.res, squared, limit_frequencies)
                  IN  [res |-> r.res, dos |-> adt.dos + r.dos]
    ELSE AverageAt(self, Float(t.val, 1), squared, limit_frequencies)

\* average_gruneisen(t, squared, limit_frequencies).
average_gruneisen(self, t, squared, limit_frequencies) ==
    IF IsNone(t)
    THEN LET adt == acoustic_debye_temp(self)
         IN  IF IsError(adt.res) THEN adt
             ELSE LET r == AverageAt(self, adt.res, squared, limit_frequencies)
                  IN  [res |-> r.res, dos |-> adt.dos + r.dos]
    ELSE AverageAt(self, Float(t.val, 1), squared, limit_frequencies)

-----------------------------------------------------------------------------
(* thermal_conductivity_slack. *)

RECURSIVE SumMass(_)
SumMass(sites) == IF sites = <<>> THEN 0 ELSE Head(sites) + SumMass(Tail(sites))

\* f1 * f2 * f3 of the Slack formula, kept as the terms it is computed from,
\* times factor: the value's theta_d / t rescaling.
SlackValue(mean_g, theta_d, average_mass, volume, factor) ==
    [kind |-> "slack", mean_g |-> mean_g, theta_d |-> theta_d,
     average_mass |-> average_mass, volume |-> volume, factor |-> factor]

\* The rescaling turned over: t / theta_d.
RescaleInverted(theta_d, t) ==
    IF IsNone(t) THEN Float(1, 1) ELSE Float(theta_d.den * t.val, theta_d.num)

\* thermal_cond *= theta_d / t, when t is given.
Rescale(theta_d, t) ==
    IF IsNone(t) THEN Float(1, 1) ELSE Float(theta_d.num, theta_d.den * t.val)

\* thermal_conductivity_slack past its structure check.
SlackFormula(self, squared, limit_frequencies, theta_d, t) ==
    LET sites == self.structure.val.sites
        average_mass == Float(SumMass(sites), Len(sites))
        adt == IF IsNone(theta_d) THEN acoustic_debye_temp(self)
               ELSE [res |-> Float(theta_d.val, 1), dos |-> 0]
    IN  IF IsError(adt.res) THEN [res |-> adt.res, dos |-> adt.dos, avg |-> 0]
        ELSE LET mean_g == AverageAt(self, adt.res, squared, limit_frequencies)
             IN  IF IsError(mean_g.res)
                 THEN [res |-> mean_g.res, dos |-> adt.dos + mean_g.dos, avg |-> 1]
                 ELSE [res |-> SlackValue(mean_g.res, adt.res, average_mass,
                                          self.structure.val.volume,
                                          Rescale(adt.res, t)),
                       dos |-> adt.dos + mean_g.dos, avg |-> 1]

\* thermal_conductivity_slack with the structure looked at only after the
\* average is taken.
SlackCheckedLate(self, squared, limit_frequencies, theta_d, t) ==
    IF IsNone(self.structure)
    THEN LET adt == IF IsNone(theta_d) THEN acoustic_debye_temp(self)
                    ELSE [res |-> Float(theta_d.val, 1), dos |-> 0]
         IN  IF IsError(adt.res) THEN [res |-> adt.res, dos |-> adt.dos, avg |-> 0]
             ELSE LET mean_g == AverageAt(self, adt.res, squared, limit_frequencies)
                  IN  [res |-> IF IsError(mean_g.res) THEN mean_g.res ELSE StructureError,
                       dos |-> adt.dos + mean_g.dos, avg |-> 1]
    ELSE SlackFormula(self, squared, limit_frequencies, theta_d, t)

\* thermal_conductivity_slack(squared, limit_frequencies, theta_d, t).
thermal_conductivity_slack(self, squared, limit_frequencies, theta_d, t) ==
    IF IsNone(self.structure)
    THEN [res |-> StructureError, dos |-> 0, avg |-> 0]
    ELSE SlackFormula(self, squared, limit_frequencies, theta_d, t)

-----------------------------------------------------------------------------
(* The instances and the arguments of the model. *)

\* The grid whose cells all hold v, but for the cell odd.at (if any), which
\* holds odd.v.
Grid(nm, nq, v, odd) ==
    [m \in 1..nm |-> [q \in 1..nq |->
        IF ~IsNone(odd) /\ odd.val.at = <<m, q>> THEN odd.val.v ELSE v]]

\* An odd cell: a frequency other than 1 THz, or a Grueneisen value other than 1.
OddCells ==
    {[w |-> -1, g |-> 1], [w |-> 0, g |-> 1], [w |-> 1, g |-> 2],
     [w |-> 1, g |-> -2], [w |-> 2, g |-> 3]}

\* Multiplicities 1 at every q-point, but 3 at q-point k (no q-point for k = 0).
Weights(nq, k) == [q \in 1..nq |-> IF q = k THEN 3 ELSE 1]

\* A structure of n sites of atomic masses 1, 3, 1, 3, ... and volume n.
StructureOf(n) ==
    [sites |-> [i \in 1..n |-> IF i % 2 = 0 THEN 3 ELSE 1], volume |-> n]

Self ==
    [qpoints |-> qpoints, gruneisen |-> gruneisen, frequencies |-> frequencies,
     multiplicities |-> multiplicities, lattice |-> lattice, structure |-> structure]

TempArgs == {None, Some(1), Some(2)}

RescaleArgs == {None, Some(2), Some(4)}

LimitArgs == {None, Some("debye"), Some("acoustic"), Some("bogus")}

Idle ==
    /\ pc = "idle"
    /\ op = "none"
    /\ args = None
    /\ result = None
    /\ dos_runs = 0
    /\ avg_runs = 0

\* Grids of every shape with at most one odd cell, the last q-point weighing 1
\* or 3, with a structure of eight sites and phonopy at hand.
InitGrids ==
    \E nm \in 1..MaxModes, nq \in 1..MaxQpoints :
      \E odd \in {None} \cup {Some([at |-> c, v |-> o]) :
                                c \in (1..nm) \X (1..nq), o \in OddCells},
         k \in {0, nq} :
        /\ qpoints = [q \in 1..nq |-> <<q, 0, 0>>]
        /\ frequencies =
             Grid(nm, nq, 1, IF IsNone(odd) THEN None
                             ELSE Some([at |-> odd.val.at, v |-> odd.val.v.w]))
        /\ gruneisen =
             Grid(nm, nq, 1, IF IsNone(odd) THEN None
                             ELSE Some([at |-> odd.val.at, v |-> odd.val.v.g]))
        /\ multiplicities = Some(Weights(nq, k))
        /\ lattice = None
        /\ structure = Some(StructureOf(8))
        /\ phonopy = Some([needs_weights |-> TRUE, theta |-> 2])

\* One 2 x 2 grid with every combination of the optional fields and of the
\* phonopy import.
InitOptional ==
    /\ qpoints = <<(<<1, 0, 0>>), (<<2, 0, 0>>)>>
    /\ frequencies = <<(<<1, 2>>), (<<1, 1>>)>>
    /\ gruneisen = <<(<<1, 2>>), (<<1, 1>>)>>
    /\ multiplicities \in {None, Some(<<1, 1>>), Some(<<1, 3>>)}
    /\ lattice = None
    /\ structure \in {None, Some(StructureOf(1)), Some(StructureOf(8))}
    /\ phonopy \in {None} \cup {Some([needs_weights |-> nw, theta |-> th]) :
                                  nw \in BOOLEAN, th \in {2, 4}}

\* No band structure is at hand.
NoBand == bs = None /\ dct = None /\ restored = None

Init == (InitGrids \/ InitOptional) /\ Idle /\ NoBand

-----------------------------------------------------------------------------
(* The operations. *)

\* gamma = self.gruneisen ** 2 done on the stored array itself (gamma **= 2).
GruneisenSquaredInPlace(self, name, a) ==
    IF name \in {"average_gruneisen", "thermal_conductivity_slack"} /\ a.squared
    THEN [m \in DOMAIN self.gruneisen |-> [q \in DOMAIN self.gruneisen[m] |->
             self.gruneisen[m][q] * self.gruneisen[m][q]]]
    ELSE self.gruneisen

\* self.gruneisen once the operation name has run on the arguments a:
\* gamma = gamma**2 binds a new array to the local name gamma, and no
\* operation assigns a field.
GruneisenAfter(self, name, a) == self.gruneisen

Returned(name, a, out, avg) ==
    /\ pc' = "returned"
    /\ op' = name
    /\ args' = a
    /\ result' = out.res
    /\ dos_runs' = out.dos
    /\ avg_runs' = avg
    /\ gruneisen' = GruneisenAfter(Self, name, a)
    /\ UNCHANGED <<qpoints, frequencies, multiplicities, lattice, structure, phonopy, band>>

AverageGruneisen ==
    /\ pc = "idle"
    /\ \E t \in TempArgs, squared \in BOOLEAN, limit_frequencies \in LimitArgs :
         Returned("average_gruneisen",
                  [t |-> t, squared |-> squared, limit_frequencies |-> limit_frequencies],
                  average_gruneisen(Self, t, squared, limit_frequencies), 1)

ThermalConductivitySlack ==
    /\ pc = "idle"
    /\ \E squared \in BOOLEAN, limit_frequencies \in LimitArgs,
          theta_d \in TempArgs, t \in RescaleArgs :
         LET out == thermal_conductivity_slack(Self, squared, limit_frequencies, theta_d, t)
         IN  Returned("thermal_conductivity_slack",
                      [squared |-> squared, limit_frequencies |-> limit_frequencies,
                       theta_d |-> theta_d, t |-> t],
                      out, out.avg)

Tdos ==
    /\ pc = "idle"
    /\ Returned("tdos", None, tdos(Self), 0)

Phdos ==
    /\ pc = "idle"
    /\ Returned("phdos", None, phdos(Self), 0)

DebyeTempLimit ==
    /\ pc = "idle"
    /\ Returned("debye_temp_limit", None, debye_temp_limit(Self), 0)

DebyeTempPhonopy ==
    /\ pc = "idle"
    /\ \E freq_max_fit \in {None, Some(1)} :
         Returned("debye_temp_phonopy", [freq_max_fit |-> freq_max_fit],
                  debye_temp_phonopy(Self, freq_max_fit), 0)

AcousticDebyeTemp ==
    /\ pc = "idle"
    /\ Returned("acoustic_debye_temp", None, acoustic_debye_temp(Self), 0)

\* The caller takes the result; the instance is ready for the next call.
Return ==
    /\ pc = "returned"
    /\ pc' = "idle"
    /\ op' = "none"
    /\ args' = None
    /\ result' = None
    /\ dos_runs' = 0
    /\ avg_runs' = 0
    /\ UNCHANGED <<fields, phonopy, band>>

Next ==
    \/ AverageGruneisen
    \/ ThermalConductivitySlack
    \/ Tdos
    \/ Phdos
    \/ DebyeTempLimit
    \/ DebyeTempPhonopy
    \/ AcousticDebyeTemp
    \/ Return

Spec == Init /\ [][Next]_vars

-----------------------------------------------------------------------------
(* Properties: what the documentation says of average_gruneisen. *)

NumModes == Len(frequencies)

NumQpoints == Len(frequencies[1])

AllCells == (1..NumModes) \X (1..NumQpoints)

\* The instance with one Grueneisen value replaced.
WithGruneisen(c, v) == [Self EXCEPT !.gruneisen[c[1]][c[2]] = v]

\* The instance with every Grueneisen value squared.
WithSquares ==
    [Self EXCEPT !.gruneisen =
        [m \in 1..NumModes |-> [q \in 1..NumQpoints |-> gruneisen[m][q] * gruneisen[m][q]]]]

OtherGammas == {-2, 1, 2, 3}

AveragedWith(t, squared, limit_frequencies) ==
    /\ pc = "returned"
    /\ op = "average_gruneisen"
    /\ args.t = t
    /\ args.squared = squared
    /\ args.limit_frequencies = limit_frequencies

Averaged == pc = "returned" /\ op = "average_gruneisen"

\* The documented average over the cells of ind: every entry (m, q) weighted by
\* the multiplicity of its q-point.
DocumentedAverage(t, ind) ==
    LET weight == [i \in 1..Len(ind) |-> multiplicities.val[ind[i][2]]]
        cv == [i \in 1..Len(ind) |-> Cv(frequencies[ind[i][1]][ind[i][2]], t)]
        cvg == [i \in 1..Len(ind) |-> cv[i] * gruneisen[ind[i][1]][ind[i][2]]]
    IN  Float(Dot(weight, cvg), Dot(weight, cv))

\* C1: with multiplicities of length num_qpoints, t given, squared=False and
\* no limit, a call whose selection has positive total weight returns
\* Sum(weight[q] * C_v[m,q] * gamma[m,q]) / Sum(weight[q] * C_v[m,q]) over the
\* selected entries, weight[q] being the multiplicity of the entry's q-point.
C1_WeightIsOfTheQpoint ==
    \A t \in TempArgs \ {None} :
      ( /\ AveragedWith(t, FALSE, None)
        /\ ~IsNone(multiplicities)
        /\ Len(multiplicities.val) = NumQpoints
        /\ \E c \in AllCells : frequencies[c[1]][c[2]] > 0 )
      => result = DocumentedAverage(Float(t.val, 1), IndAll(frequencies))

\* C2: limit_frequencies="acoustic" selects among the first three modes only:
\* the value of gruneisen at a mode beyond the third, at any q-point, never
\* changes what the call yields.
C2_AcousticIsTheFirstThreeModes ==
    Averaged /\ args.limit_frequencies = Some("acoustic")
    => \A c \in AllCells, v \in OtherGammas :
         c[1] > AcousticWidth
         => average_gruneisen(WithGruneisen(c, v), args.t, args.squared,
                              args.limit_frequencies).res = result

\* The temperature a call evaluates the heat capacity at (or the error raised
\* on the way to it).
EvaluationTemp(t) ==
    IF IsNone(t) THEN acoustic_debye_temp(Self).res ELSE Float(t.val, 1)

\* C3: no entry of negative frequency contributes to an average: whatever the
\* arguments, the value of gruneisen at such an entry does not change what
\* the call yields, and the heat capacity of every entry of frequency <= 0
\* is 0.
C3_NegativeFrequenciesIgnored ==
    Averaged
    => /\ \A c \in AllCells, v \in OtherGammas :
            frequencies[c[1]][c[2]] < 0
            => average_gruneisen(WithGruneisen(c, v), args.t, args.squared,
                                 args.limit_frequencies).res = result
       /\ ~IsError(EvaluationTemp(args.t))
          => \A c \in AllCells :
               frequencies[c[1]][c[2]] <= 0
               => Cv(frequencies[c[1]][c[2]], EvaluationTemp(args.t)) = 0

\* C3's case: a call of each kind of limit has returned a number on a grid
\* that holds a negative frequency.
C3_Witness ==
    /\ Averaged
    /\ args.limit_frequencies = Some("debye")
    /\ result.kind = "float"
    /\ \E c \in AllCells : frequencies[c[1]][c[2]] < 0 /\ c[1] <= Len(multiplicities.val)

\* C4: squared=True yields the square root of the average of the squared
\* values, and the value under the root is not negative.
C4_SquaredIsRootOfAverageOfSquares ==
    Averaged /\ args.squared /\ ~IsNone(multiplicities)
    => LET plain == average_gruneisen(WithSquares, args.t, FALSE,
                                      args.limit_frequencies).res
       IN  /\ result = (IF IsError(plain) THEN plain ELSE Sqrt(plain))
           /\ plain.kind = "float" => plain.num >= 0 /\ result.kind = "float"

\* C4's case: a squared average that is a number and differs from the plain
\* average of the same call.
C4_Witness ==
    /\ Averaged /\ args.squared /\ ~IsNone(multiplicities)
    /\ result.kind = "float"
    /\ result.root
    /\ average_gruneisen(Self, args.t, FALSE, args.limit_frequencies).res # result

-----------------------------------------------------------------------------
(* Properties: the errors of average_gruneisen. *)

PhonopyError ==
    Raise("RuntimeError", "This method requires phonopy to be installed", "")

MeshError == Raise("TypeError", "TotalDos", "")

\* The errors the resolution of the acoustic Debye temperature can end in.
DebyeErrors == {StructureError, PhonopyError, MeshError}

\* The acoustic Debye temperature is at hand: a structure, phonopy, and a mesh
\* phonopy takes.
DebyeResolves ==
    /\ ~IsNone(structure)
    /\ ~IsNone(phonopy)
    /\ ~IsNone(multiplicities) \/ ~phonopy.val.needs_weights

\* C5 as stated: a limit_frequencies that is not accepted fails with the
\* invalid-argument error naming it, whatever the other arguments and the
\* optional fields.
C5_RejectedLimitAlwaysNamed ==
    Averaged /\ args.limit_frequencies \notin AcceptedLimits
    => result = LimitError(args.limit_frequencies.val)

\* C5, amended: a limit_frequencies that is not accepted never yields a
\* value; the call fails with the invalid-argument error naming it whenever t
\* is given, or t is unset and the acoustic Debye temperature resolves; when
\* t is unset and that resolution fails, its error is raised instead (the
\* missing-structure error when structure is absent).
C5_RejectedLimitNamedOnceTIsResolved ==
    Averaged /\ args.limit_frequencies \notin AcceptedLimits
    => /\ IsError(result)
       /\ ~IsNone(args.t) \/ DebyeResolves
          => result = LimitError(args.limit_frequencies.val)
       /\ IsNone(args.t) /\ ~DebyeResolves => result \in DebyeErrors
       /\ IsNone(args.t) /\ IsNone(structure) => result = StructureError

\* C5's case: the rejected value is named although the multiplicities are
\* unset too.
C5_Witness ==
    /\ Averaged
    /\ args.limit_frequencies = Some("bogus")
    /\ IsNone(multiplicities)
    /\ ~IsNone(args.t)
    /\ result = LimitError("bogus")

\* C6 as stated: with multiplicities unset, every call with an accepted
\* limit_frequencies fails with the missing-multiplicities error.
C6_MissingMultiplicitiesAlwaysReported ==
    Averaged /\ IsNone(multiplicities) /\ args.limit_frequencies \in AcceptedLimits
    => result = MultiplicitiesError

\* C6, amended: with multiplicities unset, every call with an accepted
\* limit_frequencies fails and yields no value; the error is the
\* missing-multiplicities one when t is given and limit_frequencies is unset
\* or "acoustic", and whenever the acoustic Debye temperature resolves;
\* otherwise it is the error of that resolution (the missing-structure error
\* when structure is absent).
C6_MissingMultiplicitiesNeverAveraged ==
    Averaged /\ IsNone(multiplicities) /\ args.limit_frequencies \in AcceptedLimits
    => LET needs_debye == IsNone(args.t) \/ args.limit_frequencies = Some("debye")
       IN  /\ IsError(result)
           /\ ~needs_debye \/ DebyeResolves => result = MultiplicitiesError
           /\ needs_debye /\ ~DebyeResolves => result \in DebyeErrors
           /\ needs_debye /\ IsNone(structure) => result = StructureError

\* C6's case: the missing-multiplicities error itself.
C6_Witness ==
    /\ Averaged
    /\ IsNone(multiplicities)
    /\ args.limit_frequencies = Some("acoustic")
    /\ ~IsNone(args.t)
    /\ result = MultiplicitiesError

Slacked == pc = "returned" /\ op = "thermal_conductivity_slack"

\* C7: with structure absent, thermal_conductivity_slack, acoustic_debye_temp
\* and debye_temp_phonopy fail with the missing-structure error, whatever
\* their arguments, before any average is taken and before any TotalDos is
\* built.
C7_StructureCheckedFirst ==
    /\ pc = "returned"
    /\ IsNone(structure)
    /\ op \in {"thermal_conductivity_slack", "acoustic_debye_temp", "debye_temp_phonopy"}
    => result = StructureError /\ avg_runs = 0 /\ dos_runs = 0

\* C7's case: thermal_conductivity_slack, given theta_d and t, has failed on an
\* instance that lacks nothing but the structure.
C7_Witness ==
    /\ Slacked
    /\ IsNone(structure)
    /\ ~IsNone(phonopy)
    /\ ~IsNone(multiplicities)
    /\ ~IsNone(args.theta_d)
    /\ ~IsNone(args.t)
    /\ result = StructureError

\* Half of a thermal conductivity.
Halved(r) ==
    IF r.kind = "slack"
    THEN [r EXCEPT !.factor = Float(r.factor.num, 2 * r.factor.den)]
    ELSE r

\* C8: thermal_conductivity_slack(theta_d=T0, t=2*T0) is half of
\* thermal_conductivity_slack(theta_d=T0, t=T0); t enters the value only by
\* the factor theta_d / t; and t = theta_d yields what t unset yields.
C8_TemperatureOnlyRescales ==
    Slacked
    => LET unscaled == thermal_conductivity_slack(Self, args.squared,
                           args.limit_frequencies, args.theta_d, None).res
       IN  /\ \A T0 \in {1, 2} :
                args.theta_d = Some(T0) /\ args.t = Some(2 * T0)
                => result = Halved(thermal_conductivity_slack(Self, args.squared,
                                args.limit_frequencies, Some(T0), Some(T0)).res)
           /\ result.kind = "slack" /\ ~IsNone(args.t)
              => result = [unscaled EXCEPT
                              !.factor = Float(unscaled.theta_d.num,
                                               unscaled.theta_d.den * args.t.val)]
           /\ result.kind # "slack" => result = unscaled
           /\ result.kind = "slack" /\ ~IsNone(args.t)
              /\ Float(args.t.val, 1) = result.theta_d
              => result = unscaled

\* C8's case: a conductivity at twice the Debye temperature.
C8_Witness ==
    /\ Slacked
    /\ args.theta_d = Some(2)
    /\ args.t = Some(4)
    /\ result.kind = "slack"
    /\ result.factor = Float(1, 2)
    /\ result.mean_g.kind = "float"

\* C10: with t unset the average is the one at the acoustic Debye
\* temperature, debye_temp_limit / atom_count^(1/3), so that the call fails
\* with the missing-structure error when structure is absent; with t given
\* and limit_frequencies unset or "acoustic" the call builds no TotalDos and
\* yields the same with structure absent.
C10_DefaultTemperatureIsAcousticDebye ==
    Averaged
    => /\ IsNone(args.t) /\ IsNone(structure) => result = StructureError
       /\ IsNone(args.t) /\ DebyeResolves
          => LET n == CubeRoot(Len(structure.val.sites))
             IN  phonopy.val.theta % n = 0
                 => result = average_gruneisen(Self, Some(phonopy.val.theta \div n),
                                 args.squared, args.limit_frequencies).res
       /\ ~IsNone(args.t) /\ args.limit_frequencies \in {None, Some("acoustic")}
          => /\ dos_runs = 0
             /\ result = average_gruneisen([Self EXCEPT !.structure = None], args.t,
                             args.squared, args.limit_frequencies).res

\* C10's case: a default temperature that is not the Debye temperature itself
\* and gives another average than it.
C10_Witness ==
    /\ Averaged
    /\ IsNone(args.t)
    /\ result.kind = "float"
    /\ dos_runs = 2
    /\ result # average_gruneisen(Self, Some(phonopy.val.theta), args.squared,
                                  args.limit_frequencies).res

-----------------------------------------------------------------------------
(* Properties: the instance is never written to. *)

\* What the operation that ended last yields when it is called once more, with
\* the same arguments, on the instance as it is now.
CalledAgain ==
    CASE op = "average_gruneisen" ->
           average_gruneisen(Self, args.t, args.squared, args.limit_frequencies).res
      [] op = "thermal_conductivity_slack" ->
           thermal_conductivity_slack(Self, args.squared, args.limit_frequencies,
                                      args.theta_d, args.t).res
      [] op = "tdos" -> tdos(Self).res
      [] op = "phdos" -> phdos(Self).res
      [] op = "debye_temp_limit" -> debye_temp_limit(Self).res
      [] op = "debye_temp_phonopy" -> debye_temp_phonopy(Self, args.freq_max_fit).res
      [] op = "acoustic_debye_temp" -> acoustic_debye_temp(Self).res

\* C11: no step of any operation, returning or failing, changes qpoints,
\* frequencies, gruneisen, multiplicities, structure or lattice (squared=True
\* does not square the stored gruneisen), and after any sequence of calls the
\* call that ended last yields the same when repeated with the same arguments.
C11_FieldsNeverWritten ==
    /\ [][fields' = fields]_vars
    /\ [](pc = "returned" => result = CalledAgain)

\* C11's case: a squared average has returned a number on an instance whose
\* gruneisen holds a value that squaring would change.
C11_Witness ==
    /\ Averaged
    /\ args.squared
    /\ result.kind = "float"
    /\ \E c \in AllCells : gruneisen[c[1]][c[2]] * gruneisen[c[1]][c[2]] # gruneisen[c[1]][c[2]]

-----------------------------------------------------------------------------
(* Properties: the selection of average_gruneisen. *)

\* The acoustic Debye temperature of the instance (or the error it ends in).
InstanceDebyeTemp == acoustic_debye_temp(Self).res

\* The entries a limit_frequencies selects, when the selection can be made.
SelectionOf(limit_frequencies) ==
    IF limit_frequencies = Some("debye") THEN IndDebye(frequencies, InstanceDebyeTemp)
    ELSE IF limit_frequencies = Some("acoustic") THEN IndAcoustic(frequencies)
    ELSE IndAll(frequencies)

\* The call that ended last got as far as the division: t is resolved, the
\* limit is accepted and its selection made, the multiplicities are set.
ReachedDivision ==
    /\ Averaged
    /\ ~IsNone(multiplicities)
    /\ args.limit_frequencies \in AcceptedLimits
    /\ ~IsNone(args.t) \/ DebyeResolves
    /\ args.limit_frequencies = Some("debye") => DebyeResolves

\* The selection is empty, or holds entries of heat capacity 0 only.
NoHeatCapacitySelected ==
    LET ind == SelectionOf(args.limit_frequencies)
    IN  \A i \in 1..Len(ind) :
          Cv(frequencies[ind[i][1]][ind[i][2]], EvaluationTemp(args.t)) = 0

\* C12: a call of average_gruneisen whose selection is empty or has no heat
\* capacity at all fails with an error; it never returns NaN.
C12_EmptySelectionFails ==
    ReachedDivision /\ NoHeatCapacitySelected => IsError(result) /\ result # NaN

\* The entries of frequency 0 <= w <= f_D, f_D being the acoustic Debye
\* temperature of the instance as a frequency.
DebyeSelection ==
    LET f_D == InstanceDebyeTemp
        Within(c) == /\ 0 <= frequencies[c[1]][c[2]]
                     /\ frequencies[c[1]][c[2]] * f_D.den <= f_D.num
    IN  SelectSeq(CellsOf(frequencies), Within)

\* The average of the entries of ind at the temperature t.
AverageOver(ind, t, squared) ==
    Root(WeightedAverage(Self, multiplicities.val, t, squared, ind), squared)

\* C13: with limit_frequencies="debye" the average is the one over exactly the
\* entries of frequency 0 <= w <= f_D, f_D being the acoustic Debye temperature
\* of the instance as a frequency, whatever t is given to average_gruneisen
\* and whatever theta_d to thermal_conductivity_slack; the call fails with the
\* missing-structure error when structure is absent, t given or not.
C13_DebyeCutoffIsOfTheInstance ==
    /\ Averaged /\ args.limit_frequencies = Some("debye")
       => /\ IsNone(structure) => result = StructureError
          /\ ReachedDivision
             => result = AverageOver(DebyeSelection, EvaluationTemp(args.t), args.squared)
    /\ Slacked /\ args.limit_frequencies = Some("debye") /\ result.kind = "slack"
       => result.mean_g = AverageOver(DebyeSelection, result.theta_d, args.squared)

\* C13's case: t is given, an entry lies above the instance's cutoff and not
\* above t, and the average is not the one a cutoff at t would give.
C13_Witness ==
    /\ Averaged
    /\ args.limit_frequencies = Some("debye")
    /\ ~IsNone(args.t)
    /\ result.kind = "float"
    /\ \E c \in AllCells :
          /\ frequencies[c[1]][c[2]] * InstanceDebyeTemp.den > InstanceDebyeTemp.num
          /\ frequencies[c[1]][c[2]] <= args.t.val
    /\ result # AverageOver(IndDebye(frequencies, Float(args.t.val, 1)),
                            Float(args.t.val, 1), args.squared)

-----------------------------------------------------------------------------
(* Properties: the TotalDos objects built. *)

\* The accesses of tdos an operation makes when none of its steps fails.
TdosAccesses ==
    LET debye == IF args.limit_frequencies = Some("debye") THEN 2 ELSE 0
    IN  CASE op = "tdos" -> 1
          [] op = "phdos" -> 2
          [] op = "debye_temp_limit" -> 2
          [] op = "debye_temp_phonopy" -> 1
          [] op = "acoustic_debye_temp" -> 2
          [] op = "average_gruneisen" -> (IF IsNone(args.t) THEN 2 ELSE 0) + debye
          [] op = "thermal_conductivity_slack" ->
               (IF IsNone(args.theta_d) THEN 2 ELSE 0) + debye

\* C14: an access of tdos builds and runs one TotalDos, on the transposed
\* frequencies and the multiplicities, and none is kept: an operation that
\* ends without an error has built one TotalDos per access of tdos it makes
\* (two for phdos and for debye_temp_limit), one that fails has built no more
\* than that, and none is built where phonopy is not installed.
C14_OneTotalDosPerAccess ==
    pc = "returned"
    => /\ ~IsError(result) => dos_runs = TdosAccesses
       /\ IsError(result) => dos_runs <= TdosAccesses
       /\ IsNone(phonopy) => dos_runs = 0
       /\ op = "tdos" /\ ~IsNone(phonopy) => dos_runs = 1
       /\ op = "tdos" /\ ~IsError(result)
          => result.mesh = [frequencies |-> Transpose(frequencies),
                            weights |-> multiplicities]

\* C14's case: debye_temp_limit has returned a temperature from the two
\* TotalDos objects it built, on frequencies that their transpose reorders.
C14_Witness ==
    /\ pc = "returned"
    /\ op = "debye_temp_limit"
    /\ result.kind = "float"
    /\ dos_runs = 2
    /\ Transpose(frequencies) # frequencies

-----------------------------------------------------------------------------
(* Properties: the order of the checks of average_gruneisen. *)

\* C15: average_gruneisen resolves the default temperature first, validates
\* limit_frequencies second and looks at the multiplicities last: with t
\* unset and structure absent the missing-structure error is raised (and no
\* TotalDos built) whatever limit_frequencies and multiplicities are; a
\* failure to resolve the default temperature is the error of the call; once
\* t is given or resolved, a limit_frequencies that is not accepted is named,
\* multiplicities set or not; and the missing-multiplicities error is raised
\* only for an accepted limit_frequencies.
C15_ChecksInFixedOrder ==
    Averaged
    => /\ IsNone(args.t) /\ IsNone(structure)
          => result = StructureError /\ dos_runs = 0
       /\ IsNone(args.t) /\ ~DebyeResolves => result \in DebyeErrors
       /\ /\ ~IsNone(args.t) \/ DebyeResolves
          /\ args.limit_frequencies \notin AcceptedLimits
          => result = LimitError(args.limit_frequencies.val)
       /\ result = MultiplicitiesError
          => /\ args.limit_frequencies \in AcceptedLimits
             /\ ~IsNone(args.t) \/ DebyeResolves

\* C15's case: t unset, structure absent, limit_frequencies not accepted and
\* multiplicities unset at once: the first check is the one that fails.
C15_Witness ==
    /\ Averaged
    /\ IsNone(args.t)
    /\ IsNone(structure)
    /\ IsNone(multiplicities)
    /\ args.limit_frequencies \notin AcceptedLimits
    /\ result = StructureError

-----------------------------------------------------------------------------
(* GruneisenPhononBandStructure and GruneisenPhononBandStructureSymmLine.  *)
(*                                                                         *)
(* A reciprocal lattice is cubic here, its matrix given by its scale; a    *)
(* q-point has one coordinate.  A numpy array is [ndarray |-> its nested   *)
(* list], a complex number the pair <<real, imaginary>>.                   *)

NdArray(list) == [ndarray |-> list]

ToList(array) == array.ndarray

\* pymatgen's Kpoint: the fractional and the Cartesian coordinates of a point
\* given in either of them.
Kpoint(coords, lattice_rec, coords_are_cartesian) ==
    IF coords_are_cartesian
    THEN [frac_coords |-> coords \div lattice_rec.matrix, cart_coords |-> coords]
    ELSE [frac_coords |-> coords, cart_coords |-> coords * lattice_rec.matrix]

\* PhononBandStructure.__init__: the q-points and the labelled points become
\* Kpoints, absent eigendisplacements an empty array.
PhononBandStructure(qpts, freqs, lattice_rec, eigendisplacements, labels_dict, coords_are_cartesian, struct) ==
    [lattice_rec |-> lattice_rec,
     qpoints |-> [i \in 1..Len(qpts) |-> Kpoint(qpts[i], lattice_rec, coords_are_cartesian)],
     bands |-> freqs,
     labels_dict |-> [l \in DOMAIN labels_dict |->
                         Kpoint(labels_dict[l], lattice_rec, coords_are_cartesian)],
     eigendisplacements |-> IF IsNone(eigendisplacements) THEN NdArray(<<>>)
                            ELSE eigendisplacements.val,
     structure |-> struct]

\* GruneisenPhononBandStructure.__init__ and, with class_name the symmetry
\* line class, GruneisenPhononBandStructureSymmLine.__init__.
GruneisenPhononBandStructure(class_name, qpts, freqs, gruneisenparameters, lattice_rec, eigendisplacements, labels_dict, coords_are_cartesian, struct) ==
    [class |-> class_name,
     base |-> PhononBandStructure(qpts, freqs, lattice_rec, eigendisplacements,
                                  labels_dict, coords_are_cartesian, struct),
     gruneisen |-> gruneisenparameters]

\* bool(structure): a Structure is a sequence of sites, and an empty one is
\* false.
Truthy(struct) == ~IsNone(struct) /\ Len(struct.val.sites) > 0

Real(a) == [m \in DOMAIN a |-> [q \in DOMAIN a[m] |-> a[m][q][1]]]

Imag(a) == [m \in DOMAIN a |-> [q \in DOMAIN a[m] |-> a[m][q][2]]]

\* np.array(real) + np.array(imag) * 1j
Complex(re, im) == [m \in DOMAIN re |-> [q \in DOMAIN re[m] |-> <<re[m][q], im[m][q]>>]]

\* "qpoints": [q.as_dict()["fcoords"] for q in self.qpoints]
QpointsAsDict(x) == [i \in 1..Len(x.base.qpoints) |-> x.base.qpoints[i].frac_coords]

\* GruneisenPhononBandStructure.as_dict
as_dict(x) ==
    LET dict ==
          [class |-> x.class,
           lattice_rec |-> [matrix |-> x.base.lattice_rec.matrix],
           qpoints |-> QpointsAsDict(x),
           bands |-> ToList(x.base.bands),
           labels_dict |-> [l \in DOMAIN x.base.labels_dict |->
                               x.base.labels_dict[l].frac_coords],
           eigendisplacements |->
               [real |-> Real(ToList(x.base.eigendisplacements)),
                imag |-> Imag(ToList(x.base.eigendisplacements))],
           gruneisen |-> ToList(x.gruneisen)]
    IN  IF Truthy(x.base.structure)
        THEN [k \in DOMAIN dict \cup {"structure"} |->
                 IF k = "structure" THEN [as_dict |-> x.base.structure.val] ELSE dict[k]]
        ELSE dict

\* cls.from_dict, of either class.
from_dict(cls, d) ==
    LET lattice_rec == [matrix |-> d.lattice_rec.matrix]
        eigendisplacements ==
            NdArray(Complex(d.eigendisplacements.real, d.eigendisplacements.imag))
        struct == IF "structure" \in DOMAIN d THEN Some(d.structure.as_dict) ELSE None
    IN  GruneisenPhononBandStructure(cls, d.qpoints, NdArray(d.bands),
                                     NdArray(d.gruneisen), lattice_rec,
                                     Some(eigendisplacements), d.labels_dict, FALSE,
                                     struct)

Classes == {"GruneisenPhononBandStructure", "GruneisenPhononBandStructureSymmLine"}

\* Band structures of two modes at one or two q-points: either class, either
\* kind of coordinates, a lattice of scale 1 or 2, with and without
\* eigendisplacements, labels and structure (of no, one or two sites).
InitBand ==
    \E cls \in Classes, nq \in 1..2, scale \in 1..2, cartesian \in BOOLEAN,
       eig \in BOOLEAN, labelled \in BOOLEAN,
       struct \in {None, Some(StructureOf(0)), Some(StructureOf(1)), Some(StructureOf(2))} :
      LET frac == [q \in 1..nq |-> q]
          lattice_rec == [matrix |-> scale]
          coords == [q \in 1..nq |-> IF cartesian THEN frac[q] * scale ELSE frac[q]]
          freqs == NdArray([m \in 1..2 |-> [q \in 1..nq |-> m + q]])
          gammas == NdArray([m \in 1..2 |-> [q \in 1..nq |-> m - q]])
          displ == IF eig THEN Some(NdArray([m \in 1..2 |-> [q \in 1..nq |-> <<m, -q>>]]))
                   ELSE None
          labels == IF labelled THEN [l \in {"X"} |-> coords[nq]] ELSE <<>>
      IN  /\ bs = GruneisenPhononBandStructure(cls, coords, freqs, gammas, lattice_rec,
                                               displ, labels, cartesian, struct)
          /\ dct = None
          /\ restored = None

\* One instance of GruneisenParameter beside the band structure, never called.
InitBS ==
    /\ qpoints = <<(<<1, 0, 0>>), (<<2, 0, 0>>)>>
    /\ frequencies = <<(<<1, 2>>), (<<1, 1>>)>>
    /\ gruneisen = <<(<<1, 2>>), (<<1, 1>>)>>
    /\ multiplicities = Some(<<1, 3>>)
    /\ lattice = None
    /\ structure = None
    /\ phonopy = None
    /\ Idle
    /\ InitBand

AsDict ==
    /\ bs # None
    /\ dct = None
    /\ dct' = as_dict(bs)
    /\ UNCHANGED <<bs, restored, fields, phonopy, call>>

FromDict ==
    /\ dct # None
    /\ restored = None
    /\ restored' = from_dict(bs.class, dct)
    /\ UNCHANGED <<bs, dct, fields, phonopy, call>>

NextBS == AsDict \/ FromDict

SpecBS == InitBS /\ [][NextBS]_vars

\* C9: from_dict(x.as_dict()) is of x's class and has x's qpoints, bands,
\* gruneisen, eigendisplacements, labels_dict and structure.
C9_RoundTripExact ==
    restored # None
    => /\ restored.class = bs.class
       /\ restored.base.qpoints = bs.base.qpoints
       /\ restored.base.bands = bs.base.bands
       /\ restored.gruneisen = bs.gruneisen
       /\ restored.base.eigendisplacements = bs.base.eigendisplacements
       /\ restored.base.labels_dict = bs.base.labels_dict
       /\ restored.base.structure = bs.base.structure

\* The round trip of a band structure whose structure is absent or has sites.
RoundTripWithSites ==
    restored # None /\ (IsNone(bs.base.structure) \/ Len(bs.base.structure.val.sites) > 0)
    => restored = bs

====
